---- MODULE Spec2Model ----
(***************************************************************************)
(* A state-machine model of the WanderWise frontend: the trip-generation   *)
(* service and its progress store, the trip-generation page, the           *)
(* multi-step travel form and its validation schema, the notification      *)
(* store, the plan-management store with the plan detail page, and the     *)
(* API client's key handling.                                              *)
(*                                                                         *)
(* JavaScript runs handlers to completion: an action of this model is one  *)
(* macrotask (a click, a timer, a promise settled by the network) together *)
(* with every microtask continuation it triggers.  An `await` on a timer   *)
(* or on the network is a point where other handlers may run.              *)
(***************************************************************************)
EXTENDS Integers, Sequences, FiniteSets, TLC

\* ------------------------------------------------------------------ bounds
\* How many generateTravelPlan calls one behaviour starts.
MaxCalls == 2
\* How many notifications one behaviour of the notification store adds.
MaxNotifs == 3
\* How many handleNext calls may be suspended at once.
MaxPending == 2
\* How many times one behaviour runs handleSubmit(handleFormSubmit)().
MaxSubmits == 2
\* How many plans and folders one behaviour of the plan store creates.
MaxPlans == 2
MaxFolders == 2
\* The view_count up to which the model follows a plan.
MaxViewCount == 4
\* How many APIClient objects one behaviour constructs.
MaxClients == 3

\* simulateStepProgress' number of progress rounds per step.  The code sets
\* progressSteps = 20; the model runs the same loop with fewer rounds.
progressSteps == 2

\* ------------------------------------------------------- program constants
\* addToHistory: .slice(0, 10)
HistoryLimit == 10
\* travelFormSchema: destination z.string().min(2)
MinDestination == 2
\* travelFormSchema: 1000 * 60 * 60 * 24 ms in a day; the model counts hours
HoursPerDay == 24
\* travelFormSchema: diffInDays <= 365
MaxTripDays == 365

NoPlan == "null"
NoRequest == "null"
NoError == "null"
NoKey == "null"

\* usePlanManagementStore's initial filterBy: favorites false, no folder.
NoFilter == [favorites |-> FALSE, folder |-> 0]

\* The list page of /my-plans: no plan detail page is open.
ListPage ==
  [stage |-> "list", planId |-> 0, effectPending |-> FALSE,
   viewCountBefore |-> 0]

\* What the backend may answer with, and what the forms may ask for.
Plans == {"planA", "planB"}
Requests == {"Kandy"}

\* Values the API call may reject with: Error objects (the response
\* interceptor's messages) and a thrown value that is not an Error.
Errors ==
  { [isError |-> TRUE,  message |-> "Server error. Please try again later."],
    [isError |-> FALSE, message |-> "not-an-Error"] }
NoThrow == [isError |-> FALSE, message |-> "nothing-thrown"]

VARIABLES
  store,         \* useTravelPlanStore state
  calls,         \* the generateTravelPlan calls, by number
  nCalls,        \* how many calls were started
  currentView,   \* TripGenerationPage.currentView
  savedPlans,    \* usePlanManagementStore.savedPlans
  nextPlanId,    \* stands for the fresh `plan-<time>-<random>` ids
  selectedPlanIds, \* usePlanManagementStore.selectedPlanIds
  folders,       \* usePlanManagementStore.folders
  nextFolderId,  \* stands for the fresh `folder-<time>-<random>` ids
  detailPage,    \* which page of /my-plans the browser shows
  filterBy,      \* usePlanManagementStore.filterBy
  now,           \* the browser's wall clock (Date.now())
  storedKey,     \* localStorage['wanderwise_api_key']
  clients,       \* the apiKey field of each APIClient constructed
  conn,          \* apiClient.testConnection(): the call in progress
  appStore,      \* useAppStore: apiKey, apiKeyInfo, loading, notifications
  setup,         \* SetupPage: its connection test and its local state
  appTimers,     \* the setTimeout callbacks of useAppStore.addNotification
  notifications, \* useNotificationStore.notifications
  timers,        \* pending auto-dismiss timers (notification ids)
  nextNotifId,   \* stands for the fresh `notification-<time>-<random>` ids
  formValues,    \* the travel form's field values (react-hook-form)
  tz,            \* the browser's time zone, in hours east of UTC
  parseResult,   \* outcome of the last travelFormSchema parse
  currentStep,   \* TravelPlanningForm.currentStep
  isSubmitting,  \* TravelPlanningForm.isSubmitting
  pendingNext,   \* handleNext calls suspended at `await validateStep`
  submitAttempts, \* runs of handleSubmit(handleFormSubmit)()
  onSubmitCount  \* invocations of the onSubmit prop

genVars == <<store, calls, nCalls, currentView>>
planRest == <<selectedPlanIds, folders, nextFolderId, detailPage>>
planView == <<filterBy, now>>
planVars == <<savedPlans, nextPlanId, planRest, planView>>
keyVars == <<storedKey, clients>>
setupVars == <<appStore, setup, appTimers>>
clientVars == <<keyVars, conn, setupVars>>
notifVars == <<notifications, timers, nextNotifId>>
formVars == <<formValues, tz, parseResult, currentStep, isSubmitting,
              pendingNext, submitAttempts, onSubmitCount>>
vars == <<genVars, planVars, clientVars, notifVars, formVars>>

\* --------------------------------------------------------- arithmetic help
Min(a, b) == IF a < b THEN a ELSE b

\* Math.round(num / den) for num >= 0, den > 0: halves round up.
MathRound(num, den) == (2 * num + den) \div (2 * den)

RECURSIVE SumProgress(_)
SumProgress(steps) ==
  IF steps = <<>> THEN 0
  ELSE steps[1].progress + SumProgress(Tail(steps))

\* ------------------------------------------------------ useTravelPlanStore
defaultSteps ==
  << [id |-> "validation",   status |-> "pending", progress |-> 0],
     [id |-> "destination",  status |-> "pending", progress |-> 0],
     [id |-> "poi",          status |-> "pending", progress |-> 0],
     [id |-> "hotels",       status |-> "pending", progress |-> 0],
     [id |-> "itinerary",    status |-> "pending", progress |-> 0],
     [id |-> "optimization", status |-> "pending", progress |-> 0] >>

StepIx == DOMAIN defaultSteps

StoreInit ==
  [ isGenerating     |-> FALSE,
    currentRequest   |-> NoRequest,
    currentPlan      |-> NoPlan,
    generationSteps  |-> defaultSteps,
    currentStepIndex |-> -1,
    overallProgress  |-> 0,
    error            |-> NoError,
    planHistory      |-> <<>> ]

startGeneration(s, request) ==
  [s EXCEPT !.isGenerating = TRUE,
            !.currentRequest = request,
            !.currentPlan = NoPlan,
            !.generationSteps =
               [k \in StepIx |->
                  [defaultSteps[k] EXCEPT !.status = "pending", !.progress = 0]],
            !.currentStepIndex = 0,
            !.overallProgress = 0,
            !.error = NoError]

\* updateStep(stepId, {status, progress, message}); messages are display
\* text only and are not modelled.
updateStep(s, stepId, status, progress) ==
  LET gs == [k \in StepIx |->
               IF s.generationSteps[k].id = stepId
               THEN [s.generationSteps[k] EXCEPT !.status = status,
                                                 !.progress = progress]
               ELSE s.generationSteps[k]]
  IN [s EXCEPT !.generationSteps = gs,
               !.overallProgress = MathRound(SumProgress(gs), Len(gs))]

\* stepIndex is the code's 0-based index; sequences here are 1-based.
setCurrentStep(s, stepIndex) ==
  [s EXCEPT !.currentStepIndex = stepIndex,
            !.generationSteps =
               [k \in StepIx |->
                  [s.generationSteps[k] EXCEPT !.status =
                     IF k - 1 < stepIndex THEN "completed"
                     ELSE IF k - 1 = stepIndex THEN "loading"
                     ELSE "pending"]]]

\* As addToHistory, adding the new plan at the end of the list.
addToHistory_AtEnd(s, plan) ==
  LET h == s.planHistory \o <<plan>>
  IN [s EXCEPT !.planHistory = SubSeq(h, 1, Min(HistoryLimit, Len(h)))]

\* [plan, ...state.planHistory].slice(0, 10)
addToHistory(s, plan) ==
  LET h == <<plan>> \o s.planHistory
  IN [s EXCEPT !.planHistory = SubSeq(h, 1, Min(HistoryLimit, Len(h)))]

completeGeneration(s, plan) ==
  addToHistory(
    [s EXCEPT !.isGenerating = FALSE,
              !.currentPlan = plan,
              !.currentStepIndex = -1,
              !.overallProgress = 100,
              !.generationSteps =
                 [k \in StepIx |->
                    [defaultSteps[k] EXCEPT !.status = "completed",
                                            !.progress = 100]]],
    plan)

failGeneration(s, error) ==
  [s EXCEPT !.isGenerating = FALSE,
            !.error = error,
            !.generationSteps =
               [k \in StepIx |->
                  IF s.generationSteps[k].status = "loading"
                  THEN [s.generationSteps[k] EXCEPT !.status = "error"]
                  ELSE s.generationSteps[k]]]

resetGeneration(s) ==
  [s EXCEPT !.isGenerating = FALSE,
            !.currentRequest = NoRequest,
            !.currentPlan = NoPlan,
            !.generationSteps = defaultSteps,
            !.currentStepIndex = -1,
            !.overallProgress = 0,
            !.error = NoError]

clearHistory(s) == [s EXCEPT !.planHistory = <<>>]

\* ---------------------------------------------------- useNotificationStore
\* A duration is <<>> when the caller gave none, else <<milliseconds>>.
NoDuration == <<>>
Truthy(duration) == duration # <<>> /\ duration[1] # 0

NotifIds(ns) == {ns[k].id : k \in DOMAIN ns}

\* The list after addNotification's set(...): the new one goes last.
addNotification(ns, id, type, duration) ==
  Append(ns, [id |-> id, type |-> type, duration |-> duration])

\* As addNotificationTimer, testing duration !== undefined.
addNotificationTimer_IfDefined(ts, id, duration) ==
  IF duration # <<>> THEN ts \cup {id} ELSE ts

\* The timers after addNotification: setTimeout only for a truthy duration.
addNotificationTimer(ts, id, duration) ==
  IF Truthy(duration) THEN ts \cup {id} ELSE ts

\* As removeNotification, removing the notifications added later with it.
removeNotification_AndLater(ns, id) == SelectSeq(ns, LAMBDA n : n.id < id)

removeNotification(ns, id) == SelectSeq(ns, LAMBDA n : n.id # id)

clearAllNotifications(ns) == <<>>

\* --------------------------------------------- usePlanManagementStore (1)
\* As savePlan, replacing the list instead of prepending to it.
savePlan_Overwrite(sp, id, plan, time) ==
  <<[id |-> id, plan |-> plan, view_count |-> 0, is_favorite |-> FALSE,
     saved_at |-> time]>>

\* savePlan: the new plan goes first, with view_count 0, no favourite and
\* saved_at: new Date().toISOString().
savePlan(sp, id, plan, time) ==
  <<[id |-> id, plan |-> plan, view_count |-> 0, is_favorite |-> FALSE,
     saved_at |-> time]>> \o sp

\* ------------------------------------------------- TripGenerationService
CallIds == 1 .. MaxCalls

NoEndpoint == "none"
NoHeader == "absent"

\* JavaScript truthiness of a key read from localStorage or held by the
\* client: null and the empty string are falsy.
KeyTruthy(k) == k # NoKey /\ k # ""

\* As chooseEndpoint, testing the stored key against null only.
chooseEndpoint_IfStored(savedKey) ==
  IF savedKey # NoKey THEN "/generate-travel-plan"
  ELSE "/public/generate-travel-plan"

\* generateTravelPlan: hasApiKey ? apiClient.generateTravelPlan(...)
\*                               : apiClient.generateTravelPlanPublic(...)
chooseEndpoint(savedKey) ==
  IF KeyTruthy(savedKey) THEN "/generate-travel-plan"
  ELSE "/public/generate-travel-plan"

\* The request interceptor: if (this.apiKey) headers['X-API-Key'] = apiKey
requestHeader(apiKey) == IF KeyTruthy(apiKey) THEN apiKey ELSE NoHeader

\* ------------------------------------------------ APIClient: HTTP outcomes
\* What axios hands to the response interceptor: a response (status 2xx,
\* with the body's `success` flag and `error` text), or an AxiosError with
\* the response's status, or an AxiosError without a response (status 0).
NoText == ""
Response(success, text) ==
  [kind |-> "response", status |-> 200, success |-> success, text |-> text]
AxiosError(status, text) ==
  [kind |-> "AxiosError", status |-> status, success |-> FALSE, text |-> text]
\* new Error(message)
Error(text) ==
  [kind |-> "Error", status |-> 0, success |-> FALSE, text |-> text]

HttpOutcomes ==
  { Response(TRUE, NoText),
    Response(FALSE, NoText),
    Response(FALSE, "API key revoked"),
    Response(FALSE, "Network error while reaching the key service"),
    AxiosError(429, "Request failed with status code 429"),
    AxiosError(401, "Request failed with status code 401"),
    AxiosError(500, "Request failed with status code 500"),
    AxiosError(404, "Request failed with status code 404"),
    AxiosError(503, "Request failed with status code 503"),
    AxiosError(0, "Network Error"),
    AxiosError(0, "timeout of 30000ms exceeded") }

\* As interceptor, without the 500 case.
interceptor_No500(o) ==
  IF o.kind = "response" THEN o
  ELSE IF o.status = 429
  THEN Error("Rate limit exceeded. Please try again later.")
  ELSE IF o.status = 401
  THEN Error("Invalid API key. Please check your authentication.")
  ELSE IF o.status = 0
  THEN Error("Network error. Please check your connection.")
  ELSE o

\* The response interceptor: what the awaiting caller gets (a response) or
\* catches (an Error or the AxiosError itself).
interceptor(o) ==
  IF o.kind = "response" THEN o
  ELSE IF o.status = 429
  THEN Error("Rate limit exceeded. Please try again later.")
  ELSE IF o.status = 401
  THEN Error("Invalid API key. Please check your authentication.")
  ELSE IF o.status = 500
  THEN Error("Server error. Please try again later.")
  ELSE IF o.status = 0
  THEN Error("Network error. Please check your connection.")
  ELSE o

\* message.includes(needle), for the messages that occur in the model.
Includes(message, needle) ==
  \/ /\ needle = "Network error"
     /\ message \in {"Network error. Please check your connection.",
                      "Network error while reaching the key service"}
  \/ /\ needle = "Invalid API key"
     /\ message = "Invalid API key. Please check your authentication."

NoResult == [connected |-> FALSE, authenticated |-> FALSE, message |-> "none"]
NoOutcome == [kind |-> "none", status |-> 0, success |-> FALSE, text |-> NoText]

\* No testConnection call is running and none has returned.
IdleConn ==
  [ pc |-> "idle",            \* idle, health, info, returned
    raw |-> NoOutcome,        \* the last outcome axios produced
    seen |-> NoOutcome,       \* the same after the response interceptor
    requestedInfo |-> FALSE,  \* GET /auth/info was sent
    result |-> NoResult ]

\* useAppStore's initial state, the part the setup page reads and writes.
NoInfo == "null"
AppInitialState ==
  [apiKey |-> NoKey, apiKeyInfo |-> NoInfo, isLoading |-> FALSE,
   notifications |-> <<>>]

\* SetupPage with no connection test running and connectionTest null.
IdleSetup ==
  [pc |-> "idle", byEffect |-> FALSE, header |-> NoHeader,
   effectPending |-> FALSE, connectionTest |-> NoResult]

IdleCall ==
  [ pc        |-> "idle",      \* idle, running, returned, threw
    api       |-> "idle",      \* idle, pending, resolved, rejected
    request   |-> NoRequest,
    result    |-> NoPlan,
    apiError  |-> NoThrow,     \* what the API call rejected with
    thrown    |-> NoThrow,     \* what generateTravelPlan threw
    simStep   |-> 0,           \* simulateProgressUpdates' stepIndex
    simI      |-> 0,           \* simulateStepProgress' i; progressSteps + 1
                               \* is the delay(300) after the step
    simDone   |-> FALSE,
    completed |-> FALSE,       \* store.completeGeneration was called
    failedWith |-> NoError,    \* store.failGeneration's argument
    handler   |-> "idle",      \* page handler: idle, awaiting, saved, caught
    endpoint  |-> NoEndpoint,  \* where the request was posted
    header    |-> NoHeader ]   \* the request's X-API-Key header

\* A position of the progress simulation, as one number.
SimPos(c) == c.simStep * (progressSteps + 2) + c.simI

\* The part of simulateProgressUpdates that runs when a loop iteration
\* begins: setCurrentStep, then simulateStepProgress' first updateStep.
EnterStep(s, stepIndex) ==
  updateStep(setCurrentStep(s, stepIndex), defaultSteps[stepIndex + 1].id,
             "loading", MathRound(0 * 100, progressSteps))

\* As errorMessage, without the instanceof test.
errorMessage_NoInstanceof(err) == err.message

\* const errorMessage = error instanceof Error ? error.message : ...
errorMessage(err) ==
  IF err.isError THEN err.message ELSE "Unknown error occurred"

\* The page's catch block: error instanceof Error ? error.message : ...
pageErrorMessage(err) ==
  IF err.isError THEN err.message ELSE "Failed to generate travel plan"

\* The continuation of generateTravelPlan after both awaits, followed by
\* the continuation of the page's handleFormSubmit (microtasks of one task).
\* k is the call's record when the second of the two awaits resumes.
FinishCall(c, k) ==
  /\ store' = completeGeneration(store, k.result)
  /\ calls' = [calls EXCEPT ![c] = [k EXCEPT !.pc = "returned",
                                             !.completed = TRUE,
                                             !.handler = "saved"]]
  /\ savedPlans' = savePlan(savedPlans, nextPlanId, k.result, now)
  /\ nextPlanId' = nextPlanId + 1
  /\ UNCHANGED <<planRest, planView, clientVars>>
  /\ notifications' =
       addNotification(notifications, nextNotifId, "success", <<5000>>)
  /\ timers' = addNotificationTimer(timers, nextNotifId, <<5000>>)
  /\ nextNotifId' = nextNotifId + 1
  /\ currentView' = "results"

\* handleFormSubmit of the page up to its await, which runs
\* generateTravelPlan up to its await on the API call: startGeneration, the
\* synchronous head of simulateProgressUpdates, then the request is sent
\* by the singleton apiClient (clients[1]) to the endpoint chosen from
\* localStorage.
Submit(req) ==
  /\ currentView = "form"
  /\ nCalls < MaxCalls
  /\ nCalls' = nCalls + 1
  /\ currentView' = "generating"
  /\ store' = EnterStep(startGeneration(store, req), 0)
  /\ calls' = [calls EXCEPT ![nCalls + 1] =
                 [IdleCall EXCEPT !.pc = "running", !.api = "pending",
                                  !.request = req, !.handler = "awaiting",
                                  !.endpoint = chooseEndpoint(storedKey),
                                  !.header = requestHeader(clients[1])]]
  /\ UNCHANGED <<planVars, clientVars, notifVars, formVars>>

\* Two simulations run the same sequence of delays, so a call started later
\* reaches a position only after every earlier call has reached it.
SimMayTick(c) ==
  \A d \in 1 .. (c - 1) :
     calls[d].simDone \/ SimPos(calls[c]) + 1 <= SimPos(calls[d])

\* A delay of the progress simulation of call c ends.
SimTick(c) ==
  /\ c <= nCalls
  /\ ~calls[c].simDone
  /\ SimMayTick(c)
  /\ LET k == calls[c]
         stepId == defaultSteps[k.simStep + 1].id
     IN
     IF k.simI < progressSteps
     THEN \* next round of simulateStepProgress' loop
          /\ store' = updateStep(store, stepId, "loading",
                                 MathRound((k.simI + 1) * 100, progressSteps))
          /\ calls' = [calls EXCEPT ![c].simI = k.simI + 1]
          /\ UNCHANGED <<currentView, nCalls, planVars, clientVars, notifVars, formVars>>
     ELSE IF k.simI = progressSteps
     THEN \* the loop is over: mark the step completed, then delay(300)
          /\ store' = updateStep(store, stepId, "completed", 100)
          /\ calls' = [calls EXCEPT ![c].simI = progressSteps + 1]
          /\ UNCHANGED <<currentView, nCalls, planVars, clientVars, notifVars, formVars>>
     ELSE IF k.simStep + 1 < Len(defaultSteps)
     THEN \* next step of simulateProgressUpdates
          /\ store' = EnterStep(store, k.simStep + 1)
          /\ calls' = [calls EXCEPT ![c].simStep = k.simStep + 1,
                                    ![c].simI = 0]
          /\ UNCHANGED <<currentView, nCalls, planVars, clientVars, notifVars, formVars>>
     ELSE IF k.pc = "running" /\ k.api = "resolved"
     THEN \* the simulation ends and `await progressPromise` resumes
          /\ FinishCall(c, [k EXCEPT !.simDone = TRUE])
          /\ UNCHANGED <<nCalls, formVars>>
     ELSE \* the simulation ends; nobody is waiting for it (yet)
          /\ calls' = [calls EXCEPT ![c].simDone = TRUE]
          /\ UNCHANGED <<store, currentView, nCalls, planVars, clientVars, notifVars, formVars>>

\* As ApiResolve, had generateTravelPlan not awaited progressPromise.
ApiResolve_NoAwait(c, plan) ==
  /\ c <= nCalls
  /\ calls[c].api = "pending"
  /\ FinishCall(c, [calls[c] EXCEPT !.api = "resolved", !.result = plan])
  /\ UNCHANGED <<nCalls, formVars>>

\* The backend answers call c with a plan.
ApiResolve(c, plan) ==
  /\ c <= nCalls
  /\ calls[c].api = "pending"
  /\ IF calls[c].simDone
     THEN /\ FinishCall(c, [calls[c] EXCEPT !.api = "resolved",
                                            !.result = plan])
          /\ UNCHANGED <<nCalls, formVars>>
     ELSE /\ calls' = [calls EXCEPT ![c].api = "resolved", ![c].result = plan]
          /\ UNCHANGED <<store, currentView, nCalls, planVars, clientVars, notifVars, formVars>>

\* The API call of call c rejects with err: the catch block of
\* generateTravelPlan, then the catch block of the page's handleFormSubmit.
ApiReject(c, err) ==
  /\ c <= nCalls
  /\ calls[c].api = "pending"
  /\ store' = failGeneration(store, errorMessage(err))
  /\ calls' = [calls EXCEPT ![c].api = "rejected", ![c].pc = "threw",
                            ![c].apiError = err, ![c].thrown = err,
                            ![c].failedWith = errorMessage(err),
                            ![c].handler = "caught"]
  /\ notifications' =
       addNotification(notifications, nextNotifId, "error", <<5000>>)
  /\ timers' = addNotificationTimer(timers, nextNotifId, <<5000>>)
  /\ nextNotifId' = nextNotifId + 1
  /\ currentView' = "form"
  /\ UNCHANGED <<nCalls, planVars, clientVars, formVars>>

\* TripGenerationPage.handleGoBack (the branches that change something).
GoBack ==
  /\ currentView \in {"results", "generating"}
  /\ store' = IF currentView = "generating" THEN resetGeneration(store)
              ELSE store
  /\ currentView' = "form"
  /\ UNCHANGED <<calls, nCalls, planVars, clientVars, notifVars, formVars>>

\* TripGenerationPage.handleStartOver (also the error panel's Try Again).
StartOver ==
  /\ store' = resetGeneration(store)
  /\ currentView' = "form"
  /\ UNCHANGED <<calls, nCalls, planVars, clientVars, notifVars, formVars>>

\* An auto-dismiss timer fires: get().removeNotification(notification.id).
TimerFire(id) ==
  /\ id \in timers
  /\ timers' = timers \ {id}
  /\ notifications' = removeNotification(notifications, id)
  /\ UNCHANGED <<genVars, planVars, clientVars, formVars, nextNotifId>>

FormValuesInit ==
  [ destination   |-> 0,
    startDate     |-> [kind |-> "empty", day |-> 0],
    endDate       |-> [kind |-> "empty", day |-> 0],
    budget        |-> "mid-range",
    interests     |-> 0,
    travelStyle   |-> "moderate",
    accommodation |-> "undefined" ]

\* The form as mounted, in a browser in time zone zone.
FormInitIn(zone) ==
  /\ formValues = FormValuesInit
  /\ tz = zone
  /\ parseResult = "none"
  /\ currentStep = 0
  /\ isSubmitting = FALSE
  /\ pendingNext = <<>>
  /\ submitAttempts = 0
  /\ onSubmitCount = 0

GenVarsInit ==
  /\ store = StoreInit
  /\ calls = [c \in CallIds |-> IdleCall]
  /\ nCalls = 0
  /\ currentView = "form"

PlanVarsInit ==
  /\ savedPlans = <<>>
  /\ nextPlanId = 1
  /\ selectedPlanIds = <<>>
  /\ folders = <<>>
  /\ nextFolderId = 1
  /\ detailPage = ListPage
  /\ filterBy = NoFilter
  /\ now = 0

\* A browser with nothing stored and the exported singleton apiClient.
ClientVarsInit ==
  /\ storedKey = NoKey
  /\ clients = <<NoKey>>
  /\ conn = IdleConn
  /\ appStore = AppInitialState
  /\ appTimers = {}
  /\ setup = IdleSetup

NotifVarsInit ==
  /\ notifications = <<>>
  /\ timers = {}
  /\ nextNotifId = 1

\* Every store as created and every component as first mounted.
GenInit ==
  /\ GenVarsInit
  /\ PlanVarsInit
  /\ ClientVarsInit
  /\ NotifVarsInit
  /\ FormInitIn(0)

GenNext ==
  \/ \E req \in Requests : Submit(req)
  \/ \E c \in CallIds : SimTick(c)
  \/ \E c \in CallIds, plan \in Plans : ApiResolve(c, plan)
  \/ \E c \in CallIds, err \in Errors : ApiReject(c, err)
  \/ GoBack
  \/ StartOver

\* The trip-generation page with the service and the stores it drives.  The
\* notifications it raises stay listed here; their auto-dismiss timers run
\* in the notification specification below.
Spec == GenInit /\ [][GenNext]_vars

Returns(c) == calls[c].pc = "running" /\ calls'[c].pc = "returned"
Throws(c) == calls[c].pc = "running" /\ calls'[c].pc = "threw"

AllStepsCompleted(s) ==
  \A k \in StepIx : /\ s.generationSteps[k].status = "completed"
                    /\ s.generationSteps[k].progress = 100

\* C1: a generateTravelPlan call whose API request succeeds returns only
\* when the API response has arrived and the progress simulation has gone
\* through all six steps; at that moment the store has isGenerating = false,
\* currentPlan = the API result, every step completed at 100,
\* overallProgress = 100 and the result first in planHistory.
C1_CompleteAfterBoth ==
  [][\A c \in CallIds :
       Returns(c) =>
         /\ calls'[c].api = "resolved"
         /\ calls'[c].simDone
         /\ calls'[c].simStep = Len(defaultSteps) - 1
         /\ calls'[c].simI = progressSteps + 1
         /\ calls'[c].completed
         /\ ~store'.isGenerating
         /\ store'.currentPlan = calls'[c].result
         /\ calls'[c].result \in Plans
         /\ AllStepsCompleted(store')
         /\ store'.overallProgress = 100
         /\ store'.planHistory # <<>>
         /\ Head(store'.planHistory) = calls'[c].result]_vars

C1_Witness ==
  /\ nCalls = 1
  /\ calls[1].pc = "returned"
  /\ store.currentPlan = "planB"
  /\ Head(store.planHistory) = "planB"

\* C2: when the API request of a call rejects, failGeneration gets the
\* error's message (or 'Unknown error occurred' for a non-Error), the store
\* has isGenerating = false and error = that message, the same error is
\* rethrown, and completeGeneration is never called for that call.
C2_FailOnReject ==
  /\ [][\A c \in CallIds :
          Throws(c) =>
            LET e == calls'[c].apiError
                m == IF e.isError THEN e.message ELSE "Unknown error occurred"
            IN /\ calls[c].api = "pending" /\ calls'[c].api = "rejected"
               /\ e \in Errors
               /\ calls'[c].failedWith = m
               /\ ~store'.isGenerating
               /\ store'.error = m
               /\ calls'[c].thrown = e
               /\ ~calls'[c].completed]_vars
  /\ [][\A c \in CallIds :
          calls[c].api = "rejected" =>
            /\ calls'[c].api = "rejected"
            /\ ~calls'[c].completed
            /\ calls'[c].pc = "threw"]_vars

C2_Witness ==
  \E c \in CallIds :
     /\ calls[c].pc = "threw"
     /\ ~calls[c].thrown.isError
     /\ store.error = "Unknown error occurred"
     /\ ~store.isGenerating

\* C7: a successful generation submitted from the page adds exactly one
\* plan (its result) to savedPlans and then shows 'results'; a failed one
\* adds no saved plan, raises an error notification and shows 'form'.
C7_OneSavedPlanPerSuccess ==
  [][\A c \in CallIds :
       /\ (calls[c].handler = "awaiting" /\ calls'[c].handler = "saved") =>
            /\ calls'[c].pc = "returned"
            /\ Len(savedPlans') = Len(savedPlans) + 1
            /\ savedPlans'[1].plan = calls'[c].result
            /\ SubSeq(savedPlans', 2, Len(savedPlans')) = savedPlans
            /\ currentView' = "results"
       /\ (calls[c].handler = "awaiting" /\ calls'[c].handler = "caught") =>
            /\ calls'[c].pc = "threw"
            /\ savedPlans' = savedPlans
            /\ Len(notifications') = Len(notifications) + 1
            /\ notifications'[Len(notifications')].type = "error"
            /\ currentView' = "form"
       /\ (calls[c].pc = "running" /\ calls'[c].pc # "running") =>
            calls'[c].handler \in {"saved", "caught"}]_vars

C7_Witness ==
  /\ Len(savedPlans) = 1
  /\ \E c, d \in CallIds :
        /\ calls[c].handler = "saved"
        /\ calls[d].handler = "caught"
        /\ currentView = "form"
        /\ \E k \in DOMAIN notifications : notifications[k].type = "error"

\* --------------------------------------- useNotificationStore as a machine
NotifIdSpace == 1 .. MaxNotifs
NotifTypes == {"success", "error"}
\* none given, 0, the 3000 ms and 5000 ms the callers use
Durations == {NoDuration, <<0>>, <<3000>>, <<5000>>}

\* addNotification(notificationData): the list grows and, for a truthy
\* duration, a timer is set.
AddNotification(type, duration) ==
  /\ nextNotifId <= MaxNotifs
  /\ notifications' = addNotification(notifications, nextNotifId, type, duration)
  /\ timers' = addNotificationTimer(timers, nextNotifId, duration)
  /\ nextNotifId' = nextNotifId + 1
  /\ UNCHANGED <<genVars, planVars, clientVars, formVars>>

\* removeNotification(id), as the toast's close button calls it.
RemoveNotification(id) ==
  /\ notifications' = removeNotification(notifications, id)
  /\ UNCHANGED <<timers, nextNotifId, genVars, planVars, clientVars, formVars>>

ClearAllNotifications ==
  /\ notifications' = clearAllNotifications(notifications)
  /\ UNCHANGED <<timers, nextNotifId, genVars, planVars, clientVars, formVars>>

NotifNext ==
  \/ \E type \in NotifTypes, duration \in Durations :
        AddNotification(type, duration)
  \/ \E id \in NotifIds(notifications) : RemoveNotification(id)
  \/ (notifications # <<>> /\ ClearAllNotifications)
  \/ \E id \in NotifIdSpace : TimerFire(id)

\* The notification store alone; a timer that was set eventually fires.
NotifSpec ==
  /\ GenInit
  /\ [][NotifNext]_vars
  /\ \A id \in NotifIdSpace : WF_vars(TimerFire(id))

Listed(id) == id \in NotifIds(notifications)
ListedWithDuration(id) ==
  \E k \in DOMAIN notifications :
     /\ notifications[k].id = id
     /\ notifications[k].duration # NoDuration
     /\ notifications[k].duration[1] # 0
ListedWithoutDuration(id) ==
  \E k \in DOMAIN notifications :
     /\ notifications[k].id = id
     /\ notifications[k].duration \in {NoDuration, <<0>>}

\* C6: a notification added with a non-zero duration is eventually removed
\* from the list (timers eventually fire); one added with no duration or
\* with duration 0 leaves the list only by removeNotification(id) or
\* clearAllNotifications.
C6_AutoDismissOnlyWithDuration ==
  /\ \A id \in NotifIdSpace : ListedWithDuration(id) ~> ~Listed(id)
  /\ [][\A id \in NotifIdSpace :
          (ListedWithoutDuration(id) /\ ~Listed(id)') =>
             (RemoveNotification(id) \/ ClearAllNotifications)]_vars

C6_Witness ==
  /\ nextNotifId > MaxNotifs
  /\ timers = {}
  /\ Len(notifications) = 1
  /\ notifications[1].duration = <<0>>
  /\ notifications[1].id = 2

\* --------------------------------------------------------- travelFormSchema
\* A form value: destination is the string's length, interests the number
\* of selected interests, a date field one of
\*   [kind |-> "empty"]    the empty string,
\*   [kind |-> "invalid"]  a string new Date() cannot parse,
\*   [kind |-> "day", day |-> d]  the 'YYYY-MM-DD' of the calendar day d
\*                                days after the user's (local) today.
BUDGET_OPTIONS == {"budget", "mid-range", "luxury"}
TRAVEL_STYLE_OPTIONS == {"relaxed", "moderate", "packed"}
ACCOMMODATION_OPTIONS == {"hotel", "hostel", "airbnb", "mixed"}

EmptyDate == [kind |-> "empty", day |-> 0]
InvalidDate == [kind |-> "invalid", day |-> 0]
Day(d) == [kind |-> "day", day |-> d]

\* new Date('YYYY-MM-DD').getTime(), in hours since the UTC midnight that
\* begins the user's today: a date-only string is read as UTC midnight.
DateTime(date) == date.day * HoursPerDay

\* new Date() with setHours(0, 0, 0, 0): local midnight, on the same scale.
LocalMidnightToday(zone) == 0 - zone

\* The refine of startDate and endDate: selectedDate >= today, false for an
\* Invalid Date.
dateNotPast(date, zone) ==
  date.kind = "day" /\ DateTime(date) >= LocalMidnightToday(zone)

\* .refine(end > start) and .refine(diffInDays <= 365), false on NaN.
endAfterStart(v) ==
  /\ v.startDate.kind = "day" /\ v.endDate.kind = "day"
  /\ DateTime(v.endDate) > DateTime(v.startDate)

withinMaxTrip(v) ==
  /\ v.startDate.kind = "day" /\ v.endDate.kind = "day"
  /\ DateTime(v.endDate) - DateTime(v.startDate) <= MaxTripDays * HoursPerDay

IssueIf(path, failed) == IF failed THEN {path} ELSE {}

\* The paths travelFormSchema reports an issue on; both object-level
\* refinements report on endDate.
schemaIssues(v, zone) ==
  IssueIf("destination", v.destination < MinDestination)
  \cup IssueIf("startDate", \/ v.startDate.kind = "empty"
                            \/ ~dateNotPast(v.startDate, zone))
  \cup IssueIf("endDate", \/ v.endDate.kind = "empty"
                          \/ ~dateNotPast(v.endDate, zone)
                          \/ ~endAfterStart(v)
                          \/ ~withinMaxTrip(v))
  \cup IssueIf("budget", v.budget \notin BUDGET_OPTIONS)
  \cup IssueIf("interests", v.interests < 1)
  \cup IssueIf("travelStyle", v.travelStyle \notin TRAVEL_STYLE_OPTIONS)
  \cup IssueIf("accommodation",
               v.accommodation \notin ACCOMMODATION_OPTIONS \cup {"undefined"})

schemaAccepts(v, zone) == schemaIssues(v, zone) = {}

\* ------------------------------------------- the schema as a pure function
TimeZones == {-5, 0, 2}

SchemaInputs ==
  [ destination   : {1, 2},
    startDate     : {EmptyDate, InvalidDate, Day(-1), Day(0), Day(1)},
    endDate       : {EmptyDate, Day(0), Day(1), Day(2),
                     Day(MaxTripDays + 1), Day(MaxTripDays + 2)},
    budget        : {"mid-range", "cheap"},
    interests     : {0, 1},
    travelStyle   : {"moderate", "hectic"},
    accommodation : {"undefined", "hotel"} ]

SchemaInit ==
  /\ GenVarsInit
  /\ PlanVarsInit
  /\ ClientVarsInit
  /\ NotifVarsInit
  /\ formValues \in SchemaInputs
  /\ tz \in TimeZones
  /\ parseResult = "none"
  /\ currentStep = 0
  /\ isSubmitting = FALSE
  /\ pendingNext = <<>>
  /\ submitAttempts = 0
  /\ onSubmitCount = 0

\* travelFormSchema.safeParse(formValues)
Parse ==
  /\ parseResult = "none"
  /\ parseResult' = IF schemaAccepts(formValues, tz) THEN "accepted"
                    ELSE "rejected"
  /\ UNCHANGED <<genVars, planVars, clientVars, notifVars, formValues, tz, currentStep,
                 isSubmitting, pendingNext, submitAttempts, onSubmitCount>>

SchemaSpec == SchemaInit /\ [][Parse]_vars

\* What C5 says the schema accepts: today is the user's calendar day 0.
C5_Condition(v) ==
  /\ v.destination >= 2
  /\ v.startDate.kind = "day" /\ v.startDate.day >= 0
  /\ v.endDate.kind = "day" /\ v.endDate.day >= 0
  /\ v.endDate.day > v.startDate.day
  /\ v.endDate.day - v.startDate.day <= 365
  /\ v.budget \in {"budget", "mid-range", "luxury"}
  /\ v.travelStyle \in {"relaxed", "moderate", "packed"}
  /\ v.interests >= 1

C5_AcceptsIff_EastOfUtc ==
  (parseResult # "none" /\ tz >= 0) =>
    (parseResult = "accepted" <=> C5_Condition(formValues))

\* -------------------------------------------------------- TravelPlanningForm
formSteps == <<"basic-details", "preferences", "options">>
LastStep == Len(formSteps) - 1

\* validateStep(step): trigger([...]) is true when the resolver reports no
\* issue on the named fields.
validateStep(v, zone, step) ==
  IF step = 0
  THEN schemaIssues(v, zone) \cap {"destination", "startDate", "endDate"} = {}
  ELSE IF step = 1
  THEN schemaIssues(v, zone) \cap {"budget", "interests", "travelStyle"} = {}
  ELSE TRUE

\* isStepComplete(stepIndex): enables the Next button.
isStepComplete(v, stepIndex) ==
  IF stepIndex = 0
  THEN v.destination > 0 /\ v.startDate.kind # "empty" /\ v.endDate.kind # "empty"
  ELSE IF stepIndex = 1
  THEN v.interests > 0
  ELSE stepIndex = 2

\* As submissionAllowed, without the last-step test.
submissionAllowed_AnyStep(step) == TRUE

\* handleFormSubmit's guard: if (currentStep !== steps.length - 1) return
submissionAllowed(step) == step = Len(formSteps) - 1

\* What the user can enter on the step that is shown.
FormDestinations == {0, 2}
FormStartDates == {EmptyDate, Day(0), Day(1)}
FormEndDates == {EmptyDate, Day(1), Day(2)}

FormFrame == <<genVars, planVars, clientVars, notifVars, tz, parseResult>>

EditBasicDetails(dest, start, end) ==
  /\ currentStep = 0
  /\ formValues' = [formValues EXCEPT !.destination = dest,
                                      !.startDate = start, !.endDate = end]
  /\ formValues' # formValues
  /\ UNCHANGED <<FormFrame, currentStep, isSubmitting, pendingNext,
                 submitAttempts, onSubmitCount>>

\* Step 2's interest buttons add or remove an interest.
ToggleInterest ==
  /\ currentStep = 1
  /\ formValues' = [formValues EXCEPT !.interests = 1 - formValues.interests]
  /\ UNCHANGED <<FormFrame, currentStep, isSubmitting, pendingNext,
                 submitAttempts, onSubmitCount>>

SelectBudget(b) ==
  /\ currentStep = 1
  /\ formValues.budget # b
  /\ formValues' = [formValues EXCEPT !.budget = b]
  /\ UNCHANGED <<FormFrame, currentStep, isSubmitting, pendingNext,
                 submitAttempts, onSubmitCount>>

\* handleNext up to its await: the Next button is shown before the last
\* step and enabled when the step is complete; trigger() validates the
\* values of this moment and the call keeps the currentStep it was
\* rendered with.
ClickNext ==
  /\ currentStep < LastStep
  /\ isStepComplete(formValues, currentStep)
  /\ Len(pendingNext) < MaxPending
  /\ pendingNext' = Append(pendingNext,
        [step |-> currentStep,
         isValid |-> validateStep(formValues, tz, currentStep)])
  /\ UNCHANGED <<FormFrame, formValues, currentStep, isSubmitting,
                 submitAttempts, onSubmitCount>>

\* handleNext after its await: setCurrentStep(currentStep + 1) with the
\* currentStep of the render the click came from.
ResumeNext ==
  /\ pendingNext # <<>>
  /\ LET p == Head(pendingNext)
     IN currentStep' = IF p.isValid /\ p.step < Len(formSteps) - 1
                       THEN p.step + 1
                       ELSE currentStep
  /\ pendingNext' = Tail(pendingNext)
  /\ UNCHANGED <<FormFrame, formValues, isSubmitting, submitAttempts,
                 onSubmitCount>>

\* handlePrev; the Previous button is disabled on the first step.
ClickPrev ==
  /\ currentStep > 0
  /\ currentStep' = currentStep - 1
  /\ UNCHANGED <<FormFrame, formValues, isSubmitting, pendingNext,
                 submitAttempts, onSubmitCount>>

\* handleSubmit(handleFormSubmit)() run from the render of the current
\* step: the resolver validates the whole form and, when it passes,
\* handleFormSubmit runs up to its `await onSubmit(data)`.  The button that
\* does this is rendered on the last step only (and disabled while
\* submitting); handleFormSubmit keeps its own guard for a submit attempt
\* that reaches it from another step.
SubmitAttempt ==
  /\ submitAttempts < MaxSubmits
  /\ (currentStep = LastStep => ~isSubmitting)
  /\ submitAttempts' = submitAttempts + 1
  /\ IF schemaAccepts(formValues, tz) /\ submissionAllowed(currentStep)
     THEN /\ isSubmitting' = TRUE
          /\ onSubmitCount' = onSubmitCount + 1
     ELSE UNCHANGED <<isSubmitting, onSubmitCount>>
  /\ UNCHANGED <<FormFrame, formValues, currentStep, pendingNext>>

\* onSubmit's promise settles (either way): finally setIsSubmitting(false).
OnSubmitSettles ==
  /\ isSubmitting
  /\ isSubmitting' = FALSE
  /\ UNCHANGED <<FormFrame, formValues, currentStep, pendingNext,
                 submitAttempts, onSubmitCount>>

FormInit ==
  /\ GenVarsInit
  /\ PlanVarsInit
  /\ ClientVarsInit
  /\ NotifVarsInit
  /\ \E zone \in TimeZones : FormInitIn(zone)

FormNext ==
  \/ \E dest \in FormDestinations, start \in FormStartDates,
        end \in FormEndDates : EditBasicDetails(dest, start, end)
  \/ ToggleInterest
  \/ \E b \in BUDGET_OPTIONS : SelectBudget(b)
  \/ ClickNext
  \/ ResumeNext
  \/ ClickPrev
  \/ SubmitAttempt
  \/ OnSubmitSettles

FormSpec == FormInit /\ [][FormNext]_vars

\* C3: onSubmit is invoked only on the last step (index 2) with a form that
\* passes travelFormSchema; a submit attempt on an earlier step calls
\* neither onSubmit nor setIsSubmitting.
C3_SubmitOnlyOnLastStep ==
  [][/\ (onSubmitCount' # onSubmitCount =>
           /\ onSubmitCount' = onSubmitCount + 1
           /\ submitAttempts' = submitAttempts + 1
           /\ currentStep = 2
           /\ schemaIssues(formValues, tz) = {}
           /\ isSubmitting')
     /\ ((submitAttempts' # submitAttempts /\ currentStep # 2) =>
           /\ onSubmitCount' = onSubmitCount
           /\ isSubmitting' = isSubmitting)]_vars

C3_Witness ==
  /\ onSubmitCount = 1
  /\ submitAttempts = 2
  /\ currentStep = 2
  /\ isSubmitting

C4_StepInRange == currentStep \in 0 .. 2

\* --------------------------------------------- usePlanManagementStore (2)
\* The part of the zustand state the actions below read and write.
planStore ==
  [savedPlans |-> savedPlans, selectedPlanIds |-> selectedPlanIds,
   folders |-> folders]

SetPlanStore(st) ==
  /\ savedPlans' = st.savedPlans
  /\ selectedPlanIds' = st.selectedPlanIds
  /\ folders' = st.folders

PlanIds(st) == {st.savedPlans[i].id : i \in 1 .. Len(st.savedPlans)}
FolderIds(st) == {st.folders[i].id : i \in 1 .. Len(st.folders)}
findPlan(st, planId) ==
  st.savedPlans[CHOOSE i \in 1 .. Len(st.savedPlans) :
                  st.savedPlans[i].id = planId]

\* [...new Set(ids)]: the first occurrence of each id, in order.
RECURSIVE Unique(_)
Unique(ids) ==
  IF ids = <<>> THEN <<>>
  ELSE LET front == Unique(SubSeq(ids, 1, Len(ids) - 1))
           last == ids[Len(ids)]
       IN IF \E i \in 1 .. Len(front) : front[i] = last
          THEN front ELSE Append(front, last)

\* As deletePlan, leaving the folders' plan_ids alone.
deletePlan_KeepFolders(st, planId) ==
  [st EXCEPT
     !.savedPlans = SelectSeq(@, LAMBDA p : p.id # planId),
     !.selectedPlanIds = SelectSeq(@, LAMBDA id : id # planId)]

deletePlan(st, planId) ==
  [savedPlans |-> SelectSeq(st.savedPlans, LAMBDA p : p.id # planId),
   selectedPlanIds |-> SelectSeq(st.selectedPlanIds, LAMBDA id : id # planId),
   folders |-> [i \in 1 .. Len(st.folders) |->
                  [st.folders[i] EXCEPT
                     !.plan_ids = SelectSeq(@, LAMBDA id : id # planId)]]]

\* updatePlan: { ...plan, ...updates } for the plan with this id.
updatePlan(st, planId, updates) ==
  [st EXCEPT !.savedPlans =
     [i \in 1 .. Len(st.savedPlans) |->
        IF st.savedPlans[i].id = planId
        THEN [f \in DOMAIN st.savedPlans[i] |->
                IF f \in DOMAIN updates THEN updates[f]
                ELSE st.savedPlans[i][f]]
        ELSE st.savedPlans[i]]]

markAsViewed(st, planId) ==
  [st EXCEPT !.savedPlans =
     [i \in 1 .. Len(st.savedPlans) |->
        IF st.savedPlans[i].id = planId
        THEN [st.savedPlans[i] EXCEPT !.view_count = @ + 1]
        ELSE st.savedPlans[i]]]

createFolder(st, id) ==
  [st EXCEPT !.folders = Append(@, [id |-> id, plan_ids |-> <<>>])]

\* As deleteFolder, deleting the folder's plans with it.
deleteFolder_WithPlans(st, folderId) ==
  [st EXCEPT
     !.folders = SelectSeq(@, LAMBDA f : f.id # folderId),
     !.savedPlans = SelectSeq(@, LAMBDA p :
        \A i \in 1 .. Len(st.folders) :
          st.folders[i].id = folderId =>
            \A j \in 1 .. Len(st.folders[i].plan_ids) :
              st.folders[i].plan_ids[j] # p.id)]

deleteFolder(st, folderId) ==
  [st EXCEPT !.folders = SelectSeq(@, LAMBDA f : f.id # folderId)]

addPlansToFolder(st, folderId, planIds) ==
  [st EXCEPT !.folders =
     [i \in 1 .. Len(st.folders) |->
        IF st.folders[i].id = folderId
        THEN [st.folders[i] EXCEPT !.plan_ids = Unique(@ \o planIds)]
        ELSE st.folders[i]]]

selectPlan(st, planId) ==
  [st EXCEPT !.selectedPlanIds = Unique(@ \o <<planId>>)]

PlanFrame == <<genVars, clientVars, formVars, planView>>

SavePlan(plan) ==
  /\ nextPlanId <= MaxPlans
  /\ savedPlans' = savePlan(savedPlans, nextPlanId, plan, now)
  /\ nextPlanId' = nextPlanId + 1
  /\ UNCHANGED <<planRest, notifVars, PlanFrame>>

DeletePlan(planId) ==
  /\ planId \in PlanIds(planStore)
  /\ SetPlanStore(deletePlan(planStore, planId))
  /\ UNCHANGED <<nextPlanId, nextFolderId, detailPage, notifVars, PlanFrame>>

SelectPlan(planId) ==
  /\ planId \in PlanIds(planStore)
  /\ SetPlanStore(selectPlan(planStore, planId))
  /\ UNCHANGED <<nextPlanId, nextFolderId, detailPage, notifVars, PlanFrame>>

CreateFolder ==
  /\ nextFolderId <= MaxFolders
  /\ SetPlanStore(createFolder(planStore, nextFolderId))
  /\ nextFolderId' = nextFolderId + 1
  /\ UNCHANGED <<nextPlanId, detailPage, notifVars, PlanFrame>>

AddPlansToFolder(folderId, planId) ==
  /\ folderId \in FolderIds(planStore)
  /\ planId \in PlanIds(planStore)
  /\ SetPlanStore(addPlansToFolder(planStore, folderId, <<planId>>))
  /\ UNCHANGED <<nextPlanId, nextFolderId, detailPage, notifVars, PlanFrame>>

\* FolderManager.handleDeleteFolder, confirmed by the user: deleteFolder and
\* the 'Folder Deleted' notification.
HandleDeleteFolder(folderId) ==
  /\ folderId \in FolderIds(planStore)
  /\ SetPlanStore(deleteFolder(planStore, folderId))
  /\ notifications' =
       addNotification(notifications, nextNotifId, "success", <<3000>>)
  /\ timers' = addNotificationTimer(timers, nextNotifId, <<3000>>)
  /\ nextNotifId' = nextNotifId + 1
  /\ UNCHANGED <<nextPlanId, nextFolderId, detailPage, PlanFrame>>

\* PlanManagementPage.handlePlanClick: markAsViewed, then the browser
\* starts loading /my-plans/<planId>.
HandlePlanClick(planId) ==
  /\ detailPage.stage = "list"
  /\ planId \in PlanIds(planStore)
  /\ findPlan(planStore, planId).view_count + 2 <= MaxViewCount
  /\ SetPlanStore(markAsViewed(planStore, planId))
  /\ detailPage' =
       [stage |-> "loading", planId |-> planId, effectPending |-> FALSE,
        viewCountBefore |-> findPlan(planStore, planId).view_count]
  /\ UNCHANGED <<nextPlanId, nextFolderId, notifVars, PlanFrame>>

\* The user opens /my-plans/<planId> by its address.
OpenDetailUrl(planId) ==
  /\ detailPage.stage = "list"
  /\ planId \in PlanIds(planStore)
  /\ findPlan(planStore, planId).view_count + 2 <= MaxViewCount
  /\ detailPage' =
       [stage |-> "loading", planId |-> planId, effectPending |-> FALSE,
        viewCountBefore |-> findPlan(planStore, planId).view_count]
  /\ UNCHANGED <<savedPlans, selectedPlanIds, folders, nextPlanId,
                 nextFolderId, notifVars, PlanFrame>>

\* First render of the detail page: the plan-detail component's useState
\* initializer calls markAsViewed when the plan exists, and the page's
\* view-count effect is scheduled.
DetailPageMount ==
  /\ detailPage.stage = "loading"
  /\ IF detailPage.planId \in PlanIds(planStore)
     THEN SetPlanStore(markAsViewed(planStore, detailPage.planId))
     ELSE UNCHANGED <<savedPlans, selectedPlanIds, folders>>
  /\ detailPage' = [detailPage EXCEPT !.stage = "open",
                                      !.effectPending = TRUE]
  /\ UNCHANGED <<nextPlanId, nextFolderId, notifVars, PlanFrame>>

\* The page's useEffect with dependencies [planId, plan, updatePlan]: it
\* writes view_count + 1, which replaces the plan object it depends on, so
\* the next render schedules it again.
ViewCountEffect ==
  /\ detailPage.stage = "open"
  /\ detailPage.effectPending
  /\ IF detailPage.planId \in PlanIds(planStore)
     THEN LET plan == findPlan(planStore, detailPage.planId)
              after == updatePlan(planStore, detailPage.planId,
                                  [view_count |-> plan.view_count + 1])
          IN /\ plan.view_count < MaxViewCount
             /\ SetPlanStore(after)
             /\ detailPage' =
                  [detailPage EXCEPT !.effectPending =
                     findPlan(after, detailPage.planId) # plan]
     ELSE /\ detailPage' = [detailPage EXCEPT !.effectPending = FALSE]
          /\ UNCHANGED <<savedPlans, selectedPlanIds, folders>>
  /\ UNCHANGED <<nextPlanId, nextFolderId, notifVars, PlanFrame>>

\* Back to the list of plans.
LeaveDetailPage ==
  /\ detailPage.stage = "open"
  /\ detailPage' = ListPage
  /\ UNCHANGED <<savedPlans, selectedPlanIds, folders, nextPlanId,
                 nextFolderId, notifVars, PlanFrame>>

PlanNext ==
  \/ \E plan \in Plans : SavePlan(plan)
  \/ \E planId \in 1 .. MaxPlans : DeletePlan(planId)
  \/ \E planId \in 1 .. MaxPlans : SelectPlan(planId)
  \/ CreateFolder
  \/ \E folderId \in 1 .. MaxFolders, planId \in 1 .. MaxPlans :
       AddPlansToFolder(folderId, planId)
  \/ \E folderId \in 1 .. MaxFolders : HandleDeleteFolder(folderId)
  \/ \E planId \in 1 .. MaxPlans : HandlePlanClick(planId)
  \/ \E planId \in 1 .. MaxPlans : OpenDetailUrl(planId)
  \/ DetailPageMount
  \/ ViewCountEffect
  \/ LeaveDetailPage
  \/ \E id \in 1 .. MaxFolders : TimerFire(id)

PlanSpec == GenInit /\ [][PlanNext]_vars

\* C8: once the detail page of a saved plan is open, the plan's view_count
\* is exactly one higher than before the view and stays so.
C8_ViewCountedOnce ==
  (detailPage.stage = "open" /\ detailPage.planId \in PlanIds(planStore)) =>
    findPlan(planStore, detailPage.planId).view_count
      = detailPage.viewCountBefore + 1

\* C9: deleteFolder removes the one folder and nothing else: savedPlans,
\* selectedPlanIds and the other folders stay as they are.
C9_DeleteFolderFrame ==
  [][Len(folders') < Len(folders) =>
       /\ savedPlans' = savedPlans
       /\ selectedPlanIds' = selectedPlanIds
       /\ \E i \in 1 .. Len(folders) :
            folders' = SubSeq(folders, 1, i - 1)
                         \o SubSeq(folders, i + 1, Len(folders))]_vars

C9_Witness ==
  /\ nextFolderId = 3
  /\ Len(folders) = 1
  /\ folders[1].id = 1
  /\ folders[1].plan_ids # <<>>
  /\ Len(savedPlans) = 2
  /\ Len(selectedPlanIds) = 2
  /\ Len(notifications) = 1

\* ------------------------------------------------------------- APIClient
Keys == {"", "key-1", "key-2"}

\* As loadApiKey, without the test of the saved key.
loadApiKey_Unguarded(apiKey, savedKey) == savedKey

\* loadApiKey: if (savedKey) this.apiKey = savedKey
loadApiKey(apiKey, savedKey) ==
  IF KeyTruthy(savedKey) THEN savedKey ELSE apiKey

\* new APIClient(): apiKey starts as null, then loadApiKey().
NewClient == loadApiKey(NoKey, storedKey)

SetupFrame == <<genVars, planVars, notifVars, formVars>>
ClientFrame == <<SetupFrame, setupVars>>

ConstructClient ==
  /\ Len(clients) < MaxClients
  /\ clients' = Append(clients, NewClient)
  /\ UNCHANGED <<storedKey, conn, ClientFrame>>

SetApiKey(c, key) ==
  /\ c \in 1 .. Len(clients)
  /\ clients' = [clients EXCEPT ![c] = key]
  /\ storedKey' = key
  /\ UNCHANGED <<conn, ClientFrame>>

ClearApiKey(c) ==
  /\ c \in 1 .. Len(clients)
  /\ clients' = [clients EXCEPT ![c] = NoKey]
  /\ storedKey' = NoKey
  /\ UNCHANGED <<conn, ClientFrame>>

\* A browser that may hold a key from an earlier visit, at the moment the
\* module's singleton apiClient has been constructed.
ClientInit ==
  /\ GenVarsInit
  /\ PlanVarsInit
  /\ NotifVarsInit
  /\ FormInitIn(0)
  /\ storedKey \in {NoKey, "key-1"}
  /\ clients = <<NewClient>>
  /\ conn = IdleConn
  /\ appStore = AppInitialState
  /\ appTimers = {}
  /\ setup = IdleSetup

ClientNext ==
  \/ ConstructClient
  \/ \E c \in 1 .. MaxClients, key \in Keys : SetApiKey(c, key)
  \/ \E c \in 1 .. MaxClients : ClearApiKey(c)

ClientSpec == ClientInit /\ [][ClientNext]_vars

\* C10 as stated: a setApiKey or clearApiKey call leaves the calling
\* client's key equal to the stored value, and a client constructed
\* afterwards starts with exactly the stored value (no key when none is
\* stored).
C10_KeyAgreesWithStorage ==
  [][/\ (Len(clients') = Len(clients) /\ keyVars' # keyVars =>
           \E c \in 1 .. Len(clients) :
             clients' = [clients EXCEPT ![c] = storedKey'])
     /\ (Len(clients') > Len(clients) =>
           /\ storedKey' = storedKey
           /\ clients' = Append(clients, storedKey))]_vars

\* C10, amended: a setApiKey or clearApiKey call leaves the calling
\* client's key equal to the stored value; a client constructed afterwards
\* starts with the stored key when that is a non-empty string and with no
\* key when nothing or the empty string is stored.
C10_KeyAgreesUnlessEmpty ==
  [][/\ (Len(clients') = Len(clients) /\ keyVars' # keyVars =>
           \E c \in 1 .. Len(clients) :
             clients' = [clients EXCEPT ![c] = storedKey'])
     /\ (Len(clients') > Len(clients) =>
           /\ storedKey' = storedKey
           /\ clients' = Append(clients,
                IF storedKey = "" THEN NoKey ELSE storedKey))]_vars

C10_Witness ==
  /\ storedKey = ""
  /\ clients = <<"", "key-1", NoKey>>

\* ----------------------------------- the page with the singleton apiClient
\* The trip-generation page in a browser where the key is changed through
\* apiClient.setApiKey and apiClient.clearApiKey only.
RequestNext ==
  \/ \E key \in Keys : SetApiKey(1, key)
  \/ ClearApiKey(1)
  \/ \E req \in Requests : Submit(req)
  \/ \E c \in CallIds, plan \in Plans : ApiResolve(c, plan)
  \/ \E c \in CallIds, err \in Errors : ApiReject(c, err)
  \/ GoBack
  \/ StartOver

RequestSpec == ClientInit /\ [][RequestNext]_vars

\* C11: a generation request goes to /generate-travel-plan exactly when a
\* non-empty key is stored and to /public/generate-travel-plan otherwise;
\* a request to the authenticated endpoint carries the stored key as its
\* X-API-Key header, and a request made without a stored key carries none.
C11_EndpointFollowsStoredKey ==
  [][nCalls' = nCalls + 1 =>
       LET sent == calls'[nCalls'] IN
       /\ sent.endpoint \in {"/generate-travel-plan",
                             "/public/generate-travel-plan"}
       /\ (sent.endpoint = "/generate-travel-plan"
             <=> (storedKey # NoKey /\ storedKey # ""))
       /\ (sent.endpoint = "/generate-travel-plan" =>
             sent.header = storedKey)
       /\ ((storedKey = NoKey \/ storedKey = "") =>
             sent.header = NoHeader)]_vars

C11_Witness ==
  /\ nCalls = 2
  /\ calls[1].endpoint = "/generate-travel-plan"
  /\ calls[1].header = "key-2"
  /\ calls[2].endpoint = "/public/generate-travel-plan"
  /\ calls[2].header = NoHeader
  /\ storedKey = ""

\* ------------------------------------------- APIClient.testConnection
\* The catch block of testConnection, from the caught error's message.
catchResult(message) ==
  IF Includes(message, "Network error")
  THEN [connected |-> FALSE, authenticated |-> FALSE,
        message |-> "Cannot connect to API server"]
  ELSE IF Includes(message, "Invalid API key")
  THEN [connected |-> TRUE, authenticated |-> FALSE,
        message |-> "Invalid API key"]
  ELSE [connected |-> TRUE, authenticated |-> FALSE, message |-> message]

\* getApiKeyInfo on a response that says success: false:
\* throw new Error(response.data.error || 'Failed to fetch API key info')
keyInfoFailure(response) ==
  Error(IF response.text # NoText THEN response.text
        ELSE "Failed to fetch API key info")

\* apiClient.testConnection() is called: GET /health is sent.
StartTest ==
  /\ conn.pc \in {"idle", "returned"}
  /\ conn' = [IdleConn EXCEPT !.pc = "health"]
  /\ UNCHANGED <<keyVars, ClientFrame>>

\* testConnection from the settling of GET /health with outcome o to its
\* next await or to its return.
afterHealth(c, o, apiKey) ==
  LET seen == interceptor(o)
      k == [c EXCEPT !.raw = o, !.seen = seen]
  IN IF seen.kind # "response"
     THEN [k EXCEPT !.pc = "returned", !.result = catchResult(seen.text)]
     ELSE IF ~KeyTruthy(apiKey)
     THEN [k EXCEPT !.pc = "returned",
                    !.result = [connected |-> TRUE,
                                authenticated |-> FALSE,
                                message |->
                                  "Connected but no API key provided"]]
     ELSE [k EXCEPT !.pc = "info", !.requestedInfo = TRUE]

\* testConnection from the settling of GET /auth/info with outcome o to
\* its return.
afterInfo(c, o) ==
  LET seen == interceptor(o)
      k == [c EXCEPT !.raw = o, !.seen = seen, !.pc = "returned"]
  IN IF seen.kind # "response"
     THEN [k EXCEPT !.result = catchResult(seen.text)]
     ELSE IF ~seen.success
     THEN [k EXCEPT !.result = catchResult(keyInfoFailure(seen).text)]
     ELSE [k EXCEPT !.result =
             [connected |-> TRUE, authenticated |-> TRUE,
              message |-> "Connected and authenticated successfully"]]

\* GET /health settles with outcome o.
HealthSettles(o) ==
  /\ conn.pc = "health"
  /\ conn' = afterHealth(conn, o, clients[1])
  /\ UNCHANGED <<keyVars, ClientFrame>>

\* GET /auth/info settles with outcome o; testConnection returns.
InfoSettles(o) ==
  /\ conn.pc = "info"
  /\ conn' = afterInfo(conn, o)
  /\ UNCHANGED <<keyVars, ClientFrame>>

ConnNext ==
  \/ StartTest
  \/ \E o \in HttpOutcomes : HealthSettles(o)
  \/ \E o \in HttpOutcomes : InfoSettles(o)
  \/ \E key \in Keys : SetApiKey(1, key)
  \/ ClearApiKey(1)

ConnSpec == ClientInit /\ [][ConnNext]_vars

\* C12: testConnection always returns; connected is false exactly when the
\* call failed for want of a response; authenticated is true only when a
\* key was set and both /health and /auth/info succeeded; without a key a
\* successful health check returns connected and not authenticated, and
\* /auth/info is not requested.
C12_TestConnectionResult ==
  [][conn' # conn /\ conn.pc \in {"health", "info"} =>
       /\ conn'.pc \in {"info", "returned"}
       /\ (conn'.pc = "info" =>
             /\ conn.pc = "health"
             /\ clients[1] # NoKey
             /\ conn'.raw.kind = "response")
       /\ (conn'.pc = "returned" =>
             /\ (~conn'.result.connected
                   <=> (conn'.raw.kind = "AxiosError"
                          /\ conn'.raw.status = 0))
             /\ (conn'.result.authenticated =>
                   /\ conn.pc = "info"
                   /\ conn'.raw = Response(TRUE, NoText))
             /\ ((conn.pc = "health" /\ conn'.raw.kind = "response") =>
                   /\ clients[1] \in {NoKey, ""}
                   /\ conn'.result.connected
                   /\ ~conn'.result.authenticated
                   /\ ~conn'.requestedInfo))]_vars

\* C13: the response interceptor maps status 429, 401, 500 and a failure
\* without response to its four messages, propagates every other error
\* unchanged and passes responses through unchanged.
C13_InterceptorMessages ==
  conn.raw # NoOutcome =>
    /\ (conn.raw.kind = "response" => conn.seen = conn.raw)
    /\ (conn.raw.kind = "AxiosError" =>
          /\ (conn.raw.status = 429 =>
                conn.seen =
                  Error("Rate limit exceeded. Please try again later."))
          /\ (conn.raw.status = 401 =>
                conn.seen =
                  Error("Invalid API key. Please check your authentication."))
          /\ (conn.raw.status = 500 =>
                conn.seen = Error("Server error. Please try again later."))
          /\ (conn.raw.status = 0 =>
                conn.seen =
                  Error("Network error. Please check your connection."))
          /\ (conn.raw.status \notin {429, 401, 500, 0} =>
                conn.seen = conn.raw))

C13_Witness ==
  /\ conn.pc = "returned"
  /\ conn.requestedInfo
  /\ conn.raw = AxiosError(500, "Request failed with status code 500")
  /\ conn.seen.kind = "Error"
  /\ conn.result.message = "Server error. Please try again later."

\* --------------------------------- useTravelPlanStore, called in any order
StoreFrame == <<calls, nCalls, currentView, planVars, clientVars, notifVars,
                formVars>>

StoreStartGeneration(request) ==
  /\ store' = startGeneration(store, request)
  /\ UNCHANGED StoreFrame

StoreCompleteGeneration(plan) ==
  /\ store' = completeGeneration(store, plan)
  /\ UNCHANGED StoreFrame

StoreFailGeneration(error) ==
  /\ store' = failGeneration(store, error)
  /\ UNCHANGED StoreFrame

StoreResetGeneration ==
  /\ store' = resetGeneration(store)
  /\ UNCHANGED StoreFrame

StoreAddToHistory(plan) ==
  /\ store' = addToHistory(store, plan)
  /\ UNCHANGED StoreFrame

StoreClearHistory ==
  /\ store' = clearHistory(store)
  /\ UNCHANGED StoreFrame

HistoryNext ==
  \/ \E req \in Requests : StoreStartGeneration(req)
  \/ \E plan \in Plans : StoreCompleteGeneration(plan)
  \/ \E err \in Errors : StoreFailGeneration(errorMessage(err))
  \/ StoreResetGeneration
  \/ \E plan \in Plans : StoreAddToHistory(plan)
  \/ StoreClearHistory

HistorySpec == GenInit /\ [][HistoryNext]_vars

\* C14: planHistory never holds more than 10 plans; it changes only by a
\* new plan put first, with the entries beyond ten dropped and the others
\* kept in order (addToHistory alone or within completeGeneration), or by
\* clearHistory emptying it; startGeneration, failGeneration and
\* resetGeneration leave it as it is.
C14_HistoryAtMostTen ==
  /\ [](Len(store.planHistory) <= 10)
  /\ [][store'.planHistory # store.planHistory =>
          \/ /\ store'.planHistory = <<>>
             /\ store' = [store EXCEPT !.planHistory = <<>>]
          \/ \E plan \in Plans :
               /\ store'.planHistory =
                    IF Len(store.planHistory) < 10
                    THEN <<plan>> \o store.planHistory
                    ELSE <<plan>> \o SubSeq(store.planHistory, 1, 9)
               /\ \/ store' =
                       [store EXCEPT !.planHistory = store'.planHistory]
                  \/ /\ store'.currentPlan = plan
                     /\ ~store'.isGenerating
                     /\ store'.overallProgress = 100
                     /\ store'.currentRequest = store.currentRequest
                     /\ store'.error = store.error]_vars

C14_Witness ==
  /\ Len(store.planHistory) = 10
  /\ store.planHistory[1] = "planB"
  /\ \A i \in 2 .. 9 : store.planHistory[i] = "planA"
  /\ store.planHistory[10] = "planB"
  /\ store.currentPlan = NoPlan
  /\ store.isGenerating

\* ------------------------------------------- abandoned and failed requests
\* The user has left the generating view (Back or Start Over reset the
\* store) while a generateTravelPlan call has not yet returned or thrown.
Abandoned ==
  /\ currentView = "form"
  /\ ~store.isGenerating
  /\ store.currentPlan = NoPlan
  /\ \E c \in 1 .. nCalls : calls[c].pc = "running"

\* C15: after the user left the generating view with the request still in
\* flight, and until a new generation is started, nothing the abandoned
\* request does sets isGenerating or currentPlan, adds a saved plan or
\* switches the view to 'results'.
C15_AbandonedRequestIsInert ==
  [][(Abandoned /\ nCalls' = nCalls) =>
       /\ ~store'.isGenerating
       /\ store'.currentPlan = NoPlan
       /\ savedPlans' = savedPlans
       /\ currentView' # "results"]_vars

\* C16: once failGeneration has run, and until startGeneration or
\* resetGeneration clears the error, the steps' statuses and progress
\* values and overallProgress do not change.
C16_FailedGenerationIsStable ==
  [][(store.error # NoError /\ store'.error # NoError) =>
       /\ store'.generationSteps = store.generationSteps
       /\ store'.overallProgress = store.overallProgress]_vars

\* C17: at most one generation step has status 'loading'.
C17_AtMostOneLoading ==
  Cardinality({k \in StepIx :
                 store.generationSteps[k].status = "loading"}) <= 1

\* --------------------------------------------- usePlanManagementStore (3)
\* The wall clock takes values in 0 .. MaxTime.
MaxTime == 1

\* duplicatePlan: a copy with a new id, saved_at now and view_count 0 goes
\* first; nothing happens when the plan is not found.
duplicatePlan(st, planId, newId, time) ==
  IF planId \notin PlanIds(st) THEN st
  ELSE [st EXCEPT !.savedPlans =
          <<[findPlan(st, planId) EXCEPT
               !.id = newId, !.saved_at = time, !.view_count = 0]>> \o @]

toggleFavorite(st, planId) ==
  [st EXCEPT !.savedPlans =
     [i \in 1 .. Len(st.savedPlans) |->
        IF st.savedPlans[i].id = planId
        THEN [st.savedPlans[i] EXCEPT !.is_favorite = ~@]
        ELSE st.savedPlans[i]]]

\* setFilter: { ...state.filterBy, ...filter }.
setFilter(fb, filter) ==
  [f \in DOMAIN fb |-> IF f \in DOMAIN filter THEN filter[f] ELSE fb[f]]

\* Array.prototype.sort with the comparator
\* (a, b) => time(b.saved_at) - time(a.saved_at): newest first, plans saved
\* at the same time keep their order (the sort is stable).
RECURSIVE sortNewestFirst(_)
sortNewestFirst(plans) ==
  IF plans = <<>> THEN <<>>
  ELSE LET front == sortNewestFirst(SubSeq(plans, 1, Len(plans) - 1))
           last == plans[Len(plans)]
           ahead == SelectSeq(front, LAMBDA p : p.saved_at >= last.saved_at)
           behind == SelectSeq(front, LAMBDA p : p.saved_at < last.saved_at)
       IN ahead \o <<last>> \o behind

inFolder(st, folderId, planId) ==
  \E i \in 1 .. Len(st.folders) :
    /\ st.folders[i].id = folderId
    /\ \E j \in 1 .. Len(st.folders[i].plan_ids) :
         st.folders[i].plan_ids[j] = planId

\* getFilteredPlans with the store's initial searchQuery, tags, destinations,
\* sortBy ('date_saved') and sortOrder ('desc'): a copy of savedPlans,
\* filtered by favorites and by folder (when that folder exists), sorted.
getFilteredPlans(st, fb) ==
  LET copy == st.savedPlans
      favs == IF fb.favorites
              THEN SelectSeq(copy, LAMBDA p : p.is_favorite) ELSE copy
      inF == IF fb.folder # 0 /\ fb.folder \in FolderIds(st)
             THEN SelectSeq(favs, LAMBDA p : inFolder(st, fb.folder, p.id))
             ELSE favs
  IN sortNewestFirst(inF)

getPlansByFolder(st, folderId) ==
  IF folderId \notin FolderIds(st) THEN <<>>
  ELSE SelectSeq(st.savedPlans, LAMBDA p : inFolder(st, folderId, p.id))

getFavoritePlans(st) == SelectSeq(st.savedPlans, LAMBDA p : p.is_favorite)

\* getRecentPlans: savedPlans.sort(...) sorts the store's own array and
\* returns it; slice(0, limit) copies the first limit plans of it.
getRecentPlans(st, limit) ==
  LET sorted == sortNewestFirst(st.savedPlans)
  IN [store |-> [st EXCEPT !.savedPlans = sorted],
      value |-> SubSeq(sorted, 1, IF limit < Len(sorted) THEN limit
                                  ELSE Len(sorted))]

\* getStatistics, the counts the model has: total, favorites, folders.
getStatistics(st) ==
  [total |-> Len(st.savedPlans),
   favorites |-> Len(getFavoritePlans(st)),
   folders |-> Len(st.folders)]

selectAllPlans(st, fb) ==
  LET filteredPlans == getFilteredPlans(st, fb)
  IN [st EXCEPT !.selectedPlanIds =
        [i \in 1 .. Len(filteredPlans) |-> filteredPlans[i].id]]

RECURSIVE deleteEach(_, _)
deleteEach(st, planIds) ==
  IF planIds = <<>> THEN st
  ELSE deleteEach(deletePlan(st, Head(planIds)), Tail(planIds))

\* bulkDelete: deletePlan for each selected id, then the selection is
\* emptied.
bulkDelete(st) ==
  [deleteEach(st, st.selectedPlanIds) EXCEPT !.selectedPlanIds = <<>>]

bulkAddToFolder(st, folderId) ==
  [addPlansToFolder(st, folderId, st.selectedPlanIds)
     EXCEPT !.selectedPlanIds = <<>>]

planData == <<savedPlans, selectedPlanIds, folders>>
LibraryFrame == <<nextPlanId, nextFolderId, detailPage, notifVars, genVars,
                  clientVars, formVars>>

DuplicatePlan(planId) ==
  /\ nextPlanId <= MaxPlans
  /\ planId \in PlanIds(planStore)
  /\ SetPlanStore(duplicatePlan(planStore, planId, nextPlanId, now))
  /\ nextPlanId' = nextPlanId + 1
  /\ UNCHANGED <<nextFolderId, detailPage, notifVars, PlanFrame>>

ToggleFavorite(planId) ==
  /\ planId \in PlanIds(planStore)
  /\ SetPlanStore(toggleFavorite(planStore, planId))
  /\ UNCHANGED <<planView, LibraryFrame>>

DeleteFolder(folderId) ==
  /\ folderId \in FolderIds(planStore)
  /\ SetPlanStore(deleteFolder(planStore, folderId))
  /\ UNCHANGED <<planView, LibraryFrame>>

SelectAllPlans ==
  /\ SetPlanStore(selectAllPlans(planStore, filterBy))
  /\ UNCHANGED <<planView, LibraryFrame>>

BulkDelete ==
  /\ SetPlanStore(bulkDelete(planStore))
  /\ UNCHANGED <<planView, LibraryFrame>>

BulkAddToFolder(folderId) ==
  /\ folderId \in FolderIds(planStore)
  /\ SetPlanStore(bulkAddToFolder(planStore, folderId))
  /\ UNCHANGED <<planView, LibraryFrame>>

SetFilter(filter) ==
  /\ filterBy' = setFilter(filterBy, filter)
  /\ UNCHANGED <<now, planData, LibraryFrame>>

\* Date.now() is the system's wall clock: it moves forward, and it moves
\* back when the system's time is set back.
ClockChange ==
  /\ \E t \in 0 .. MaxTime : t # now /\ now' = t
  /\ UNCHANGED <<filterBy, planData, LibraryFrame>>

\* A getter that only reads: the store is what it was.
GetFilteredPlans ==
  /\ Len(getFilteredPlans(planStore, filterBy)) <= Len(savedPlans)
  /\ UNCHANGED vars

GetPlansByFolder(folderId) ==
  /\ Len(getPlansByFolder(planStore, folderId)) <= Len(savedPlans)
  /\ UNCHANGED vars

GetFavoritePlans ==
  /\ Len(getFavoritePlans(planStore)) <= Len(savedPlans)
  /\ UNCHANGED vars

GetStatistics ==
  /\ getStatistics(planStore).total >= 0
  /\ UNCHANGED vars

GetRecentPlans(limit) ==
  /\ SetPlanStore(getRecentPlans(planStore, limit).store)
  /\ UNCHANGED <<planView, LibraryFrame>>

LibraryNext ==
  \/ \E plan \in Plans : SavePlan(plan)
  \/ \E planId \in 1 .. MaxPlans : DuplicatePlan(planId)
  \/ \E planId \in 1 .. MaxPlans : DeletePlan(planId)
  \/ \E planId \in 1 .. MaxPlans : ToggleFavorite(planId)
  \/ \E planId \in 1 .. MaxPlans : SelectPlan(planId)
  \/ SelectAllPlans
  \/ CreateFolder
  \/ \E folderId \in 1 .. MaxFolders : DeleteFolder(folderId)
  \/ \E folderId \in 1 .. MaxFolders, planId \in 1 .. MaxPlans :
       AddPlansToFolder(folderId, planId)
  \/ BulkDelete
  \/ \E folderId \in 1 .. MaxFolders : BulkAddToFolder(folderId)
  \/ \E fav \in BOOLEAN : SetFilter([favorites |-> fav])
  \/ \E folderId \in 0 .. MaxFolders : SetFilter([folder |-> folderId])
  \/ ClockChange
  \/ GetFilteredPlans
  \/ \E folderId \in 1 .. MaxFolders : GetPlansByFolder(folderId)
  \/ GetFavoritePlans
  \/ GetStatistics
  \/ \E limit \in 1 .. MaxPlans : GetRecentPlans(limit)

LibrarySpec == GenInit /\ [][LibraryNext]_vars

\* C18: every id in selectedPlanIds and in any folder's plan_ids is the id
\* of a plan in savedPlans.
C18_IdsReferToSavedPlans ==
  /\ \A i \in 1 .. Len(selectedPlanIds) :
       selectedPlanIds[i] \in PlanIds(planStore)
  /\ \A f \in 1 .. Len(folders) : \A j \in 1 .. Len(folders[f].plan_ids) :
       folders[f].plan_ids[j] \in PlanIds(planStore)

\* Of the two plans that were saved one has been deleted; the other one is
\* selected and in a folder, and the other folder is empty.
C18_Witness ==
  /\ nextPlanId = MaxPlans + 1
  /\ Len(savedPlans) = 1
  /\ selectedPlanIds = <<savedPlans[1].id>>
  /\ \E f \in 1 .. Len(folders) : folders[f].plan_ids = <<savedPlans[1].id>>
  /\ \E f \in 1 .. Len(folders) : folders[f].plan_ids = <<>>

\* C20: a call of getRecentPlans leaves savedPlans, its contents and its
\* order, as it was; so does every other getter.
C20_GettersLeaveStoreAlone ==
  [][((\E limit \in 1 .. MaxPlans : GetRecentPlans(limit))
      \/ GetFilteredPlans \/ GetFavoritePlans \/ GetStatistics
      \/ \E folderId \in 1 .. MaxFolders : GetPlansByFolder(folderId))
     => savedPlans' = savedPlans]_vars

\* ------------------------------------------------------------ SetupPage
\* The app store holds at most this many notifications at a time.
MaxAppNotifs == 2

\* addNotification's default for a notification without a duration.
DefaultDuration == 5000

\* useAppStore.addNotification: the new notification goes last.
appAddNotification(st, id, type, duration) ==
  [st EXCEPT !.notifications =
     Append(@, [id |-> id, type |-> type, duration |-> duration])]

\* As appAddNotificationTimer, setting the timer only for a truthy duration.
appAddNotificationTimer_IfTruthy(ts, id, duration) ==
  IF Truthy(duration)
  THEN ts \cup {[id |-> id, delay |-> duration[1]]} ELSE ts

\* The timers after useAppStore.addNotification: none for duration 0,
\* otherwise setTimeout(..., notification.duration || 5000).
appAddNotificationTimer(ts, id, duration) ==
  IF duration = <<0>> THEN ts
  ELSE ts \cup {[id |-> id,
                 delay |-> IF Truthy(duration) THEN duration[1]
                           ELSE DefaultDuration]}

\* useAppStore.removeNotification.
appRemoveNotification(st, id) ==
  [st EXCEPT !.notifications = SelectSeq(@, LAMBDA n : n.id # id)]

\* useAppStore.clearNotifications.
appClearNotifications(st) == [st EXCEPT !.notifications = <<>>]

\* generateId() returns an id no notification in the list and no pending
\* timer has: the least such id of the model's ids.
AppNotifIdSpace == 1 .. MaxAppNotifs + 1
AppListed(id) ==
  \E k \in DOMAIN appStore.notifications : appStore.notifications[k].id = id
AppIdsInUse ==
  {appStore.notifications[k].id : k \in DOMAIN appStore.notifications}
    \cup {t.id : t \in appTimers}
AppDelays ==
  {d[1] : d \in Durations \ {NoDuration, <<0>>}} \cup {DefaultDuration}
generateId ==
  CHOOSE id \in AppNotifIdSpace :
    /\ id \notin AppIdsInUse
    /\ \A smaller \in 1 .. id - 1 : smaller \in AppIdsInUse

\* addNotification({ type, duration }) on the store st.
AppNotify(st, type, duration) ==
  /\ appStore' = appAddNotification(st, generateId, type, duration)
  /\ appTimers' = appAddNotificationTimer(appTimers, generateId, duration)

\* useAppStore.clearApiKey: set({ apiKey: null, apiKeyInfo: null }).
appClearApiKey(st) == [st EXCEPT !.apiKey = NoKey, !.apiKeyInfo = NoInfo]

\* useAppStore.setApiKeyInfo: set({ apiKeyInfo: info }).
appSetApiKeyInfo(st, info) == [st EXCEPT !.apiKeyInfo = info]

\* The key information the server returns for the key in the request's
\* X-API-Key header.
keyInfoOf(header) == header

\* What /auth/info can answer to a request: success only to a request that
\* carried a key.
KeyInfoOutcomes(header) ==
  {o \in HttpOutcomes :
     (o.kind = "response" /\ o.success) => header # NoHeader}

CanNotify ==
  /\ Len(appStore.notifications) < MaxAppNotifs
  /\ AppNotifIdSpace \ AppIdsInUse # {}

\* The connection test of the page (the effect's testConnection and
\* handleTestConnection) up to `await apiClient.testConnection()`; one test
\* runs at a time.
BeginTest(byEffect) ==
  /\ setup.pc = "idle"
  /\ conn.pc \in {"idle", "returned"}
  /\ appStore' = [appStore EXCEPT !.isLoading = TRUE]
  /\ conn' = [IdleConn EXCEPT !.pc = "health"]
  /\ UNCHANGED appTimers
  /\ setup' = [setup EXCEPT !.pc = "testing", !.byEffect = byEffect,
                            !.effectPending = IF byEffect THEN FALSE ELSE @]

\* handleSaveApiKey with the text of the input field.
HandleSaveApiKey(input) ==
  /\ ~KeyTruthy(appStore.apiKey)
  /\ CanNotify
  /\ IF input = ""
     THEN /\ AppNotify(appStore, "warning", NoDuration)
          /\ UNCHANGED <<keyVars, setup>>
     ELSE /\ AppNotify([appStore EXCEPT !.apiKey = input], "info",
                       NoDuration)
          /\ clients' = [clients EXCEPT ![1] = input]
          /\ storedKey' = input
          /\ setup' = [setup EXCEPT !.effectPending = TRUE]
  /\ UNCHANGED <<conn, SetupFrame>>

\* The effect with apiKey among its dependencies, run after apiKey changed:
\* if (apiKey) testConnection().
ConnectionTestEffect ==
  /\ setup.effectPending
  /\ IF KeyTruthy(appStore.apiKey)
     THEN BeginTest(TRUE)
     ELSE /\ setup' = [setup EXCEPT !.effectPending = FALSE]
          /\ UNCHANGED <<appStore, conn, appTimers>>
  /\ UNCHANGED <<keyVars, SetupFrame>>

\* handleTestConnection: the button is shown while apiKey is set.
HandleTestConnection ==
  /\ KeyTruthy(appStore.apiKey)
  /\ BeginTest(FALSE)
  /\ UNCHANGED <<keyVars, SetupFrame>>

\* The page after testConnection returned result with the client's key
\* apiKey: setConnectionTest(result), then either GET /auth/info is sent by
\* apiClient.getApiKeyInfo() or the finally block runs.
afterTest(st, result, apiKey) ==
  IF result.authenticated
  THEN [app |-> st,
        setup |-> [setup EXCEPT !.pc = "keyInfo",
                                !.header = requestHeader(apiKey),
                                !.connectionTest = result]]
  ELSE [app |-> [st EXCEPT !.isLoading = FALSE],
        setup |-> [setup EXCEPT !.pc = "idle", !.connectionTest = result]]

\* A request of the running testConnection settles with outcome o; when
\* testConnection returns, the page goes on to its next await.
TestSettles(o) ==
  /\ setup.pc = "testing"
  /\ conn.pc \in {"health", "info"}
  /\ conn' = IF conn.pc = "health" THEN afterHealth(conn, o, clients[1])
             ELSE afterInfo(conn, o)
  /\ IF conn'.pc = "returned"
     THEN LET next == afterTest(appStore, conn'.result, clients[1])
          IN /\ appStore' = next.app
             /\ setup' = next.setup
     ELSE UNCHANGED <<appStore, setup>>
  /\ UNCHANGED <<keyVars, appTimers, SetupFrame>>

\* The page's own apiClient.getApiKeyInfo() settles with outcome o:
\* setApiKeyInfo(keyInfo) and the success notification, or the catch block;
\* then clearLoading().
KeyInfoSettles(o) ==
  /\ setup.pc = "keyInfo"
  /\ o \in KeyInfoOutcomes(setup.header)
  /\ CanNotify
  /\ LET seen == interceptor(o)
         ok == seen.kind = "response" /\ seen.success
         st == IF ok
               THEN appSetApiKeyInfo(appStore, keyInfoOf(setup.header))
               ELSE appStore
     IN /\ AppNotify([st EXCEPT !.isLoading = FALSE],
                     IF ok THEN "success" ELSE "error", NoDuration)
        /\ setup' = [setup EXCEPT
                       !.pc = "idle", !.header = NoHeader,
                       !.connectionTest =
                         IF ~ok /\ setup.byEffect
                         THEN [connected |-> FALSE, authenticated |-> FALSE,
                               message |-> IF seen.kind = "response"
                                           THEN keyInfoFailure(seen).text
                                           ELSE seen.text]
                         ELSE @]
  /\ UNCHANGED <<keyVars, conn, SetupFrame>>

\* handleClearApiKey: the button is shown while apiKey is set.
HandleClearApiKey ==
  /\ KeyTruthy(appStore.apiKey)
  /\ CanNotify
  /\ AppNotify(appClearApiKey(appStore), "info", NoDuration)
  /\ clients' = [clients EXCEPT ![1] = NoKey]
  /\ storedKey' = NoKey
  /\ setup' = [setup EXCEPT !.connectionTest = NoResult,
                            !.effectPending = TRUE]
  /\ UNCHANGED <<conn, SetupFrame>>

\* useAppStore.removeNotification(id), as a close button calls it.
AppRemoveNotification(id) ==
  /\ AppListed(id)
  /\ appStore' = appRemoveNotification(appStore, id)
  /\ UNCHANGED <<keyVars, conn, setup, appTimers, SetupFrame>>

\* A timer of addNotification fires: get().removeNotification(id).
AppTimerFire(id, delay) ==
  /\ [id |-> id, delay |-> delay] \in appTimers
  /\ appTimers' = appTimers \ {[id |-> id, delay |-> delay]}
  /\ appStore' = appRemoveNotification(appStore, id)
  /\ UNCHANGED <<keyVars, conn, setup, SetupFrame>>

SetupNext ==
  \/ \E input \in Keys : HandleSaveApiKey(input)
  \/ ConnectionTestEffect
  \/ HandleTestConnection
  \/ \E o \in HttpOutcomes : TestSettles(o)
  \/ \E o \in HttpOutcomes : KeyInfoSettles(o)
  \/ HandleClearApiKey
  \/ \E id \in AppNotifIdSpace : AppRemoveNotification(id)
  \/ \E id \in AppNotifIdSpace, delay \in AppDelays : AppTimerFire(id, delay)

SetupSpec == ClientInit /\ [][SetupNext]_vars

\* C19: in the app store apiKeyInfo is non-null only while apiKey is
\* non-null, whenever the setup page's connection tests finish.
C19_KeyInfoOnlyWithKey ==
  appStore.apiKeyInfo # NoInfo => appStore.apiKey # NoKey

\* C21: the auto-dismiss timer of notification id removes that notification
\* and nothing else: when the notification is no longer in the list the
\* list stays as it is, every other notification (those added later
\* included) stays, and the ones that stay keep their order.
C21_TimerRemovesOnlyItsOwn ==
  [][\A id \in NotifIdSpace : TimerFire(id) =>
       /\ (~Listed(id) => notifications' = notifications)
       /\ Len(notifications') =
            Len(notifications) - (IF Listed(id) THEN 1 ELSE 0)
       /\ \A k \in DOMAIN notifications :
            notifications[k].id # id =>
              \E j \in DOMAIN notifications' :
                notifications'[j] = notifications[k]
       /\ \A i, j \in DOMAIN notifications' :
            i < j =>
              \E a, b \in DOMAIN notifications :
                /\ a < b
                /\ notifications[a] = notifications'[i]
                /\ notifications[b] = notifications'[j]]_vars

\* All notifications have been added; the first one is gone and its timer is
\* not pending, the two added after it are listed in their order, the last
\* one with its timer still pending.
C21_Witness ==
  /\ nextNotifId > MaxNotifs
  /\ 1 \notin timers
  /\ MaxNotifs \in timers
  /\ Len(notifications) = MaxNotifs - 1
  /\ \A k \in DOMAIN notifications : notifications[k].id = k + 1

\* ------------------------------------- useAppStore.addNotification alone
AppAddNotification(type, duration) ==
  /\ CanNotify
  /\ AppNotify(appStore, type, duration)
  /\ UNCHANGED <<keyVars, conn, setup, SetupFrame>>

\* clearNotifications on a list that is not empty (on an empty one nothing
\* changes).
AppClearNotifications ==
  /\ appStore.notifications # <<>>
  /\ appStore' = appClearNotifications(appStore)
  /\ UNCHANGED <<keyVars, conn, setup, appTimers, SetupFrame>>

AppNotifNext ==
  \/ \E type \in NotifTypes, duration \in Durations :
       AppAddNotification(type, duration)
  \/ \E id \in AppNotifIdSpace : AppRemoveNotification(id)
  \/ AppClearNotifications
  \/ \E id \in AppNotifIdSpace, delay \in AppDelays : AppTimerFire(id, delay)

\* The app store's notifications alone; a timer that was set eventually
\* fires.
AppNotifSpec ==
  /\ ClientInit
  /\ [][AppNotifNext]_vars
  /\ \A id \in AppNotifIdSpace, delay \in AppDelays :
       WF_vars(AppTimerFire(id, delay))

AppListedWith(id, durations) ==
  \E k \in DOMAIN appStore.notifications :
    /\ appStore.notifications[k].id = id
    /\ appStore.notifications[k].duration \in durations

\* C22: a notification added to the app store with duration 0 leaves the
\* list only by removeNotification(id) or clearNotifications; one added
\* with another duration or with none is eventually removed, its timer set
\* to the duration, or to 5000 ms when none was given.
C22_AppAutoDismiss ==
  /\ \A id \in AppNotifIdSpace :
       AppListedWith(id, Durations \ {<<0>>}) ~> ~AppListed(id)
  /\ [][\A id \in AppNotifIdSpace :
          (AppListedWith(id, {<<0>>}) /\ ~AppListed(id)') =>
             (AppRemoveNotification(id) \/ AppClearNotifications)]_vars
  /\ [](\A k \in DOMAIN appStore.notifications :
          LET n == appStore.notifications[k]
          IN /\ n.duration = <<0>> =>
                  \A t \in appTimers : t.id # n.id
             /\ n.duration = NoDuration =>
                  [id |-> n.id, delay |-> DefaultDuration] \in appTimers
             /\ n.duration \notin {<<0>>, NoDuration} =>
                  [id |-> n.id, delay |-> n.duration[1]] \in appTimers)

\* A notification with duration 0 is listed, no timer is pending, and the
\* one added without a duration before it is gone.
C22_Witness ==
  /\ appTimers = {}
  /\ Len(appStore.notifications) = 1
  /\ appStore.notifications[1].duration = <<0>>
  /\ appStore.notifications[1].id = 2

====
